---- MODULE Spec2Model ----
(***************************************************************************)
(* powdeviceinfo.cfgmgr: the wrappers around the CfgMgr32 device           *)
(* configuration service (src/src/powdeviceinfo/cfgmgr/__init__.py).       *)
(*                                                                         *)
(* The service is an external collaborator: every call it answers is a     *)
(* nondeterministic choice of a status and of what it reports or writes.   *)
(* One caller runs one high-level operation at a time.  A generator        *)
(* (CMEnumerator.iter, CMClass.iter) advances by one next() per step; a    *)
(* bulk listing advances by one key per step; every other operation is one *)
(* step.  Operations share no state, so a behaviour runs one operation.    *)
(* calls is the log of the service calls of the operation (for a bulk      *)
(* listing: of the key listing, then of the last fetch the service         *)
(* failed).                                                                *)
(***************************************************************************)
EXTENDS Integers, Sequences, FiniteSets, TLC

\* ------------------------------------------------------------- bounds
\* Stands for the 0xFFFFFFFF of range(0xFFFFFFFF): the number of indices a
\* sentinel enumeration tries before it gives up.
IndexLimit == 3
\* Largest key count the service reports for a class or a device.
MaxKeys == 3
\* Largest byte size the service reports for a property value.
MaxBytes == 1
\* Device identifier list: most identifiers, and the most code units the
\* sizing call may report beyond what the list call writes.
MaxIds == 2
MaxSlack == 1

\* ------------------------------------------------------------- statuses
CR_SUCCESS == "CR_SUCCESS"
CR_BUFFER_SMALL == "CR_BUFFER_SMALL"
CR_NO_SUCH_VALUE == "CR_NO_SUCH_VALUE"
\* Any status the wrappers do not name (CR_FAILURE, CR_NO_SUCH_DEVNODE, ...).
CR_FAILURE == "CR_FAILURE"
Status == {CR_SUCCESS, CR_BUFFER_SMALL, CR_NO_SUCH_VALUE, CR_FAILURE}
NoCr == "-"

\* What the service may answer.
Items == {"x", "y"}
Types == {"STRING", "UINT32"}
EnumResponses == [cr : Status, item : Items]
KeyResponses == [cr : Status, size : 0..MaxKeys]
PropResponses == [cr : Status, size : 0..MaxBytes, type : Types]

Min(a, b) == IF a < b THEN a ELSE b

\* ------------------------------------------------------------- CMError
NotRaised == [raised |-> FALSE, cr |-> NoCr]
Raise(cr) == [raised |-> TRUE, cr |-> cr]

throw_if_failed(cr) ==
    IF cr # CR_SUCCESS THEN Raise(cr) ELSE NotRaised

throw_ifnot_buffersmall_SuccessToo(cr) ==
    IF cr # CR_BUFFER_SMALL /\ cr # CR_SUCCESS THEN Raise(cr) ELSE NotRaised

throw_ifnot_buffersmall_Swapped(cr) ==
    IF cr # CR_SUCCESS THEN Raise(cr) ELSE NotRaised

throw_ifnot_buffersmall(cr) ==
    IF cr # CR_BUFFER_SMALL THEN Raise(cr) ELSE NotRaised

\* ------------------------------------------------------------- state
VARIABLES
    op,        \* the operation in progress or last run
    cls,       \* the CMClass subclass it runs on ("-" when none)
    outcome,   \* none | suspended | running | returned | CMError | OverflowError
    err,       \* CMError.cr when outcome = "CMError"
    calls,     \* the service calls made, in order
    i,         \* generator: next index; bulk listing: position in keys
    buf,       \* CMEnumerator.iter's reused name buffer
    yielded,   \* what a generator has yielded to its consumer so far
    keys,      \* bulk listing: the key tuple being iterated
    acc,       \* bulk listing: the items built so far (not yet returned)
    result,    \* the returned value, as a tuple (empty unless returned)
    svcIds,    \* device-id listing: the identifiers the service wrote
    svcSlack   \* device-id listing: reported size minus written length

vars == <<op, cls, outcome, err, calls, i, buf, yielded, keys, acc, result,
          svcIds, svcSlack>>

Init ==
    /\ op = "-"
    /\ cls = "-"
    /\ outcome = "none"
    /\ err = NoCr
    /\ calls = <<>>
    /\ i = 0
    /\ buf = ""
    /\ yielded = <<>>
    /\ keys = <<>>
    /\ acc = <<>>
    /\ result = <<>>
    /\ svcIds = <<>>
    /\ svcSlack = 0

\* No operation has been started.  The operations share no state (each call
\* allocates its own buffers and the module keeps nothing between calls), so
\* a behaviour is one operation, run from the initial state to its end.
Idle == outcome = "none"

\* ------------------------------------------------------------- class flavours
Classes == {"CMSetupClass", "CMInterfaceClass"}
classenumflags(c) == IF c = "CMSetupClass" THEN 0 ELSE 1
classpropflags(c) == IF c = "CMSetupClass" THEN 0 ELSE 1

\* ------------------------------------------------------------- sentinel enumerations
EnumOps == {"CMEnumerator.iter", "CMClass.iter"}

OnRangeExhausted_Silent == "returned"

\* The statement after the for loop: raise OverflowError.
OnRangeExhausted == "OverflowError"

\* Calling iter() creates the generator; no code of its body has run yet
\* (buf is allocated, zeroed, at the first next()).
CMEnumerator_iter ==
    /\ Idle
    /\ op' = "CMEnumerator.iter"
    /\ cls' = "-"
    /\ outcome' = "suspended"
    /\ err' = NoCr
    /\ calls' = <<>>
    /\ i' = 0
    /\ buf' = ""
    /\ yielded' = <<>>
    /\ keys' = <<>>
    /\ acc' = <<>>
    /\ result' = <<>>
    /\ svcIds' = <<>>
    /\ svcSlack' = 0

\* One next(): the loop body for index i, up to the yield or the return;
\* past the last index, the raise after the loop.  The service writes the
\* name into buf only when it succeeds.
CMEnumerator_next ==
    /\ op = "CMEnumerator.iter"
    /\ outcome = "suspended"
    /\ IF i < IndexLimit
       THEN \E r \in EnumResponses :
              LET wrote == IF r.cr = CR_SUCCESS THEN r.item ELSE buf
                  call == [fn |-> "CM_Enumerate_EnumeratorsW", index |-> i, flags |-> 0,
                           cr |-> r.cr, item |-> IF r.cr = CR_SUCCESS THEN r.item ELSE ""]
              IN /\ calls' = Append(calls, call)
                 /\ IF r.cr = CR_NO_SUCH_VALUE
                    THEN /\ outcome' = "returned"
                         /\ UNCHANGED <<i, buf, yielded>>
                    ELSE /\ buf' = wrote
                         /\ yielded' = Append(yielded, wrote)
                         /\ i' = i + 1
                         /\ UNCHANGED outcome
       ELSE /\ outcome' = OnRangeExhausted
            /\ UNCHANGED <<calls, i, buf, yielded>>
    /\ UNCHANGED <<op, cls, err, keys, acc, result, svcIds, svcSlack>>

CMClass_iter ==
    /\ Idle
    /\ \E c \in Classes : cls' = c
    /\ op' = "CMClass.iter"
    /\ outcome' = "suspended"
    /\ err' = NoCr
    /\ calls' = <<>>
    /\ i' = 0
    /\ buf' = ""
    /\ yielded' = <<>>
    /\ keys' = <<>>
    /\ acc' = <<>>
    /\ result' = <<>>
    /\ svcIds' = <<>>
    /\ svcSlack' = 0

\* One next(): a fresh, zeroed Guid ("") per index, which the service fills
\* only when it succeeds; the yielded item is cls(guid).
CMClass_next ==
    /\ op = "CMClass.iter"
    /\ outcome = "suspended"
    /\ IF i < IndexLimit
       THEN \E r \in EnumResponses :
              LET guid == IF r.cr = CR_SUCCESS THEN r.item ELSE ""
                  call == [fn |-> "CM_Enumerate_Classes", index |-> i,
                           flags |-> classenumflags(cls),
                           cr |-> r.cr, item |-> guid]
              IN /\ calls' = Append(calls, call)
                 /\ IF r.cr = CR_NO_SUCH_VALUE
                    THEN /\ outcome' = "returned"
                         /\ UNCHANGED <<i, yielded>>
                    ELSE /\ yielded' = Append(yielded, guid)
                         /\ i' = i + 1
                         /\ UNCHANGED outcome
       ELSE /\ outcome' = OnRangeExhausted
            /\ UNCHANGED <<calls, i, yielded>>
    /\ UNCHANGED <<op, cls, err, buf, keys, acc, result, svcIds, svcSlack>>

\* ------------------------------------------------------------- sized-buffer retrievals
\* One call of a sized fetch, as logged: null tells a None buffer, cap the
\* capacity of the buffer passed, cr and size what the service answered.
SizedCall(fn, arg, flags, null, cap, r) ==
    [fn |-> fn, arg |-> arg, flags |-> flags, null |-> null, cap |-> cap,
     cr |-> r.cr, size |-> r.size]

Returned(value, log) == [kind |-> "return", err |-> NoCr, value |-> value, calls |-> log]
Raised(cr, log) == [kind |-> "raise", err |-> cr, value |-> <<>>, calls |-> log]

BufferOf_OneShort(n) == IF n > 0 THEN n - 1 ELSE 0

\* (c_byte * bufsize.value)(), (DevicePropertyKey * c.value)(): the capacity
\* of the zeroed array allocated for a reported size of n.
BufferOf(n) == n

\* tuple(keys): the service filled the first `written` slots of a zeroed
\* array of cap keys; key k stands for the k-th key of the object, 0 for a
\* zeroed DevicePropertyKey.
KeysOf(cap, written) == [k \in 1..cap |-> IF k <= Min(written, cap) THEN k ELSE 0]

None == [kind |-> "None", key |-> 0, type |-> "-", nbytes |-> 0]

\* DeviceProperty(key, DevicePropertyType(type.value), bytes(buf))
DeviceProperty(key, type, nbytes) ==
    [kind |-> "DeviceProperty", key |-> key, type |-> type, nbytes |-> nbytes]

CMClass_propkeys_op(c, r1, r2) ==
    LET fn == "CM_Get_Class_Property_Keys"
        flags == classpropflags(c)
        c1 == SizedCall(fn, 0, flags, TRUE, 0, r1)
        cap == BufferOf(r1.size)
        c2 == SizedCall(fn, 0, flags, FALSE, cap, r2)
    IN IF r1.cr = CR_SUCCESS THEN Returned(<<>>, <<c1>>)
       ELSE IF r1.cr # CR_BUFFER_SMALL THEN Raised(r1.cr, <<c1>>)
       ELSE IF r2.cr # CR_SUCCESS THEN Raised(r2.cr, <<c1, c2>>)
       ELSE Returned(KeysOf(cap, r2.size), <<c1, c2>>)

\* The strict fetch shared by CMClass.get_prop and CMDevice.get_prop, which
\* differ in the service function called and its flags.
StrictFetch(fn, key, flags, r1, r2) ==
    LET c1 == SizedCall(fn, key, flags, TRUE, 0, r1)
        t1 == throw_ifnot_buffersmall(r1.cr)
        cap == BufferOf(r1.size)
        c2 == SizedCall(fn, key, flags, FALSE, cap, r2)
        t2 == throw_if_failed(r2.cr)
    IN IF t1.raised THEN Raised(t1.cr, <<c1>>)
       ELSE IF t2.raised THEN Raised(t2.cr, <<c1, c2>>)
       ELSE Returned(<<DeviceProperty(key, r2.type, cap)>>, <<c1, c2>>)

\* The lenient fetch shared by CMClass.get_prop_or_none and
\* CMDevice.get_prop_or_none.
LenientFetch(fn, key, flags, r1, r2) ==
    LET c1 == SizedCall(fn, key, flags, TRUE, 0, r1)
        cap == BufferOf(r1.size)
        c2 == SizedCall(fn, key, flags, FALSE, cap, r2)
    IN IF r1.cr # CR_BUFFER_SMALL THEN Returned(<<None>>, <<c1>>)
       ELSE IF r2.cr # CR_SUCCESS THEN Returned(<<None>>, <<c1, c2>>)
       ELSE Returned(<<DeviceProperty(key, r2.type, cap)>>, <<c1, c2>>)

CMClass_get_prop_op(c, key, r1, r2) ==
    StrictFetch("CM_Get_Class_PropertyW", key, classpropflags(c), r1, r2)

CMClass_get_prop_or_none_op(c, key, r1, r2) ==
    LenientFetch("CM_Get_Class_PropertyW", key, classpropflags(c), r1, r2)

CMDevice_propkeys_op(r1, r2) ==
    LET fn == "CM_Get_DevNode_Property_Keys"
        c1 == SizedCall(fn, 0, 0, TRUE, 0, r1)
        t1 == throw_ifnot_buffersmall(r1.cr)
        cap == BufferOf(r1.size)
        c2 == SizedCall(fn, 0, 0, FALSE, cap, r2)
        t2 == throw_if_failed(r2.cr)
    IN IF t1.raised THEN Raised(t1.cr, <<c1>>)
       ELSE IF t2.raised THEN Raised(t2.cr, <<c1, c2>>)
       ELSE Returned(KeysOf(cap, r2.size), <<c1, c2>>)

CMDevice_get_prop_op(key, r1, r2) ==
    StrictFetch("CM_Get_DevNode_PropertyW", key, 0, r1, r2)

CMDevice_get_prop_or_none_op(key, r1, r2) ==
    LenientFetch("CM_Get_DevNode_PropertyW", key, 0, r1, r2)

\* An operation that runs to its end in one step: what the caller sees.
Finish(o, c, res) ==
    /\ op' = o
    /\ cls' = c
    /\ outcome' = IF res.kind = "raise" THEN "CMError" ELSE "returned"
    /\ err' = res.err
    /\ calls' = res.calls
    /\ result' = res.value
    /\ i' = 0
    /\ buf' = ""
    /\ yielded' = <<>>
    /\ keys' = <<>>
    /\ acc' = <<>>
    /\ svcIds' = <<>>
    /\ svcSlack' = 0

\* The keys a caller may ask for: the object's keys.
KeyArgs == 1..MaxKeys

CMClass_propkeys ==
    /\ Idle
    /\ \E c \in Classes, r1 \in KeyResponses, r2 \in KeyResponses :
         Finish("CMClass.propkeys", c, CMClass_propkeys_op(c, r1, r2))

CMClass_get_prop ==
    /\ Idle
    /\ \E c \in Classes, key \in KeyArgs, r1 \in PropResponses, r2 \in PropResponses :
         Finish("CMClass.get_prop", c, CMClass_get_prop_op(c, key, r1, r2))

CMClass_get_prop_or_none ==
    /\ Idle
    /\ \E c \in Classes, key \in KeyArgs, r1 \in PropResponses, r2 \in PropResponses :
         Finish("CMClass.get_prop_or_none", c, CMClass_get_prop_or_none_op(c, key, r1, r2))

CMDevice_propkeys ==
    /\ Idle
    /\ \E r1 \in KeyResponses, r2 \in KeyResponses :
         Finish("CMDevice.propkeys", "-", CMDevice_propkeys_op(r1, r2))

CMDevice_get_prop ==
    /\ Idle
    /\ \E key \in KeyArgs, r1 \in PropResponses, r2 \in PropResponses :
         Finish("CMDevice.get_prop", "-", CMDevice_get_prop_op(key, r1, r2))

CMDevice_get_prop_or_none ==
    /\ Idle
    /\ \E key \in KeyArgs, r1 \in PropResponses, r2 \in PropResponses :
         Finish("CMDevice.get_prop_or_none", "-", CMDevice_get_prop_or_none_op(key, r1, r2))

SizedNext ==
    \/ CMClass_propkeys
    \/ CMClass_get_prop
    \/ CMClass_get_prop_or_none
    \/ CMDevice_propkeys
    \/ CMDevice_get_prop
    \/ CMDevice_get_prop_or_none

\* ------------------------------------------------------------- bulk property listings
\* A bulk listing starts: the key tuple is fetched first (self.propkeys is
\* the generator expression's iterable); an empty tuple ends the listing.
BulkBegin(o, c, pk) ==
    IF pk.kind = "raise" \/ pk.value = <<>>
    THEN Finish(o, c, pk)
    ELSE /\ op' = o
         /\ cls' = c
         /\ outcome' = "running"
         /\ err' = NoCr
         /\ calls' = pk.calls
         /\ keys' = pk.value
         /\ i' = 1
         /\ acc' = <<>>
         /\ result' = <<>>
         /\ buf' = ""
         /\ yielded' = <<>>
         /\ svcIds' = <<>>
         /\ svcSlack' = 0

\* The calls of a property fetch show that the service gave no value: the
\* sizing call was not answered BufferTooSmall, or the value call not Success.
FetchFailed(log) == Len(log) < 2 \/ log[2].cr # CR_SUCCESS

\* The listing's next item: the fetch g of keys[i] raised (the exception
\* leaves tuple(...) or OrderedDict(...), and what was built is dropped), or
\* gave an item; after the last key, `whole` (the items converted) is
\* returned.  The log keeps the calls of a fetch the service failed.
BulkStep(g, item, whole) ==
    /\ calls' = IF FetchFailed(g.calls) THEN g.calls ELSE calls
    /\ IF g.kind = "raise"
       THEN /\ outcome' = "CMError"
            /\ err' = g.err
            /\ acc' = <<>>
            /\ UNCHANGED <<i, result>>
       ELSE /\ UNCHANGED err
            /\ IF i = Len(keys)
               THEN /\ outcome' = "returned"
                    /\ result' = whole
                    /\ acc' = <<>>
                    /\ UNCHANGED i
               ELSE /\ acc' = Append(acc, item)
                    /\ i' = i + 1
                    /\ UNCHANGED <<outcome, result>>
    /\ UNCHANGED <<op, cls, keys, buf, yielded, svcIds, svcSlack>>

\* tuple(items)
Tuple(items) == items

KeyIndex(d, key) ==
    IF \E k \in 1..Len(d) : d[k].key = key
    THEN CHOOSE k \in 1..Len(d) : d[k].key = key
    ELSE 0

RECURSIVE DictFrom(_, _)
DictFrom(d, items) ==
    IF items = <<>> THEN d
    ELSE LET it == Head(items)
             k == KeyIndex(d, it.key)
         IN DictFrom(IF k = 0 THEN Append(d, it) ELSE [d EXCEPT ![k] = it],
                     Tail(items))

\* OrderedDict(items): a key keeps the place of its first pair and the value
\* of its last.
OrderedDict(items) == DictFrom(<<>>, items)

\* CMClass.props: tuple(self.get_prop(key) for key in self.propkeys)
CMClass_props ==
    /\ Idle
    /\ \E c \in Classes, r1 \in KeyResponses, r2 \in KeyResponses :
         BulkBegin("CMClass.props", c, CMClass_propkeys_op(c, r1, r2))

\* The fetch CMClass.props makes per key: self.get_prop(key).
CMClass_props_fetch(c, key, r1, r2) ==
    CMClass_get_prop_op(c, key, r1, r2)

CMClass_props_next ==
    /\ op = "CMClass.props"
    /\ outcome = "running"
    /\ \E r1 \in PropResponses, r2 \in PropResponses :
         LET g == CMClass_props_fetch(cls, keys[i], r1, r2)
             prop == IF g.kind = "raise" THEN None ELSE g.value[1]
         IN BulkStep(g, prop, Tuple(Append(acc, prop)))

DeviceBulkOps == {"CMDevice.props", "CMDevice.propdict"}

\* CMDevice.props, CMDevice.propdict: both consume self.props_iter.
CMDevice_props ==
    /\ Idle
    /\ \E o \in DeviceBulkOps, r1 \in KeyResponses, r2 \in KeyResponses :
         BulkBegin(o, "-", CMDevice_propkeys_op(r1, r2))

CMDevice_props_iter_fetch_Lenient(key, r1, r2) ==
    CMDevice_get_prop_or_none_op(key, r1, r2)

\* The fetch props_iter makes per key: get_prop = self.get_prop.
CMDevice_props_iter_fetch(key, r1, r2) ==
    CMDevice_get_prop_op(key, r1, r2)

\* props_iter's next pair (key, get_prop(key)), consumed by tuple(...) or by
\* OrderedDict(...).
CMDevice_props_iter_next ==
    /\ op \in DeviceBulkOps
    /\ outcome = "running"
    /\ \E r1 \in PropResponses, r2 \in PropResponses :
         LET g == CMDevice_props_iter_fetch(keys[i], r1, r2)
             pair == [key |-> keys[i],
                      value |-> IF g.kind = "raise" THEN None ELSE g.value[1]]
         IN IF op = "CMDevice.props"
            THEN BulkStep(g, pair, Tuple(Append(acc, pair)))
            ELSE BulkStep(g, pair, OrderedDict(Append(acc, pair)))

BulkNext ==
    \/ CMClass_props
    \/ CMClass_props_next
    \/ CMDevice_props
    \/ CMDevice_props_iter_next

\* ------------------------------------------------------------- device identifier listing
\* UTF-16 code units of the identifiers the service may list, "A", "B", "AB".
DeviceIds == {<<65>>, <<66>>, <<65, 66>>}

RECURSIVE SeqsUpTo(_, _)
SeqsUpTo(S, n) ==
    IF n = 0 THEN {<<>>}
    ELSE LET shorter == SeqsUpTo(S, n - 1)
         IN shorter \cup {Append(q, x) : q \in shorter, x \in S}

IdLists == SeqsUpTo(DeviceIds, MaxIds)

RECURSIVE Flatten(_)
Flatten(ss) == IF ss = <<>> THEN <<>> ELSE Head(ss) \o Flatten(Tail(ss))

\* What the service writes for a list of identifiers: each followed by a
\* null, then a closing null; two nulls for the empty list.
ServiceIdList(ids) ==
    IF ids = <<>> THEN <<0, 0>>
    ELSE Flatten([k \in 1..Len(ids) |-> Append(ids[k], 0)]) \o <<0>>

\* (c_wchar * len)() after the service wrote `content` at its start.
Filled(len, content) ==
    [k \in 1..len |-> IF k <= Len(content) THEN content[k] ELSE 0]

\* bytes(buf): two bytes per c_wchar (Windows), little endian.
Bytes(units) == Flatten([k \in 1..Len(units) |-> <<units[k] % 256, units[k] \div 256>>])

\* b[:-4]
DropLast4(b) == SubSeq(b, 1, Len(b) - 4)

\* b.decode("utf-16le") of an even number of bytes holding no surrogates.
DecodeUtf16le(b) == [k \in 1..(Len(b) \div 2) |-> b[2 * k - 1] + 256 * b[2 * k]]

FirstNull(s) ==
    IF \E k \in 1..Len(s) : s[k] = 0
    THEN CHOOSE k \in 1..Len(s) : s[k] = 0 /\ \A j \in 1..(k - 1) : s[j] # 0
    ELSE 0

\* s.split("\0"): one more part than there are nulls; [""] for "".
RECURSIVE SplitNull(_)
SplitNull(s) ==
    LET k == FirstNull(s)
    IN IF k = 0 THEN <<s>>
       ELSE <<SubSeq(s, 1, k - 1)>> \o SplitNull(SubSeq(s, k + 1, Len(s)))

\* CM_GETIDLIST_FILTER_*: the flags of iter_all, iter_by_enumerator and
\* iter_by_class, plus CM_GETIDLIST_FILTER_PRESENT (which none of them holds).
FilterFlag(variant) ==
    CASE variant = "CMDeviceID.iter_all" -> 0
      [] variant = "CMDeviceID.iter_by_enumerator" -> 1
      [] variant = "CMDeviceID.iter_by_class" -> 512

DeviceIdOps ==
    {"CMDeviceID.iter_all", "CMDeviceID.iter_by_enumerator", "CMDeviceID.iter_by_class"}

\* __getdeviceidlist_worker, against a service that answers the sizing call
\* with (cr1, reported) and the list call with cr2, writing `content`.
getdeviceidlist_worker(flags0, presents_only, cr1, reported, cr2, content) ==
    LET flags == IF presents_only THEN flags0 + 256 ELSE flags0
        c1 == [fn |-> "CM_Get_Device_ID_List_SizeW", arg |-> 0, flags |-> flags,
               null |-> FALSE, cap |-> 0, cr |-> cr1, size |-> reported]
        t1 == throw_if_failed(cr1)
        len == reported
        c2 == [fn |-> "CM_Get_Device_ID_ListW", arg |-> 0, flags |-> flags,
               null |-> FALSE, cap |-> len, cr |-> cr2, size |-> len]
        t2 == throw_if_failed(cr2)
    IN IF t1.raised THEN Raised(t1.cr, <<c1>>)
       ELSE IF t2.raised THEN Raised(t2.cr, <<c1, c2>>)
       ELSE Returned(SplitNull(DecodeUtf16le(DropLast4(Bytes(Filled(len, content))))),
                     <<c1, c2>>)

\* iter_all, iter_by_enumerator, iter_by_class: yield from the worker's list.
\* The service holds the identifiers ids and reports slack code units more
\* than it writes.
CMDeviceID_iter ==
    /\ Idle
    /\ \E o \in DeviceIdOps, presents_only \in BOOLEAN, ids \in IdLists,
          slack \in 0..MaxSlack, cr1 \in Status, cr2 \in Status :
         LET content == ServiceIdList(ids)
             res == getdeviceidlist_worker(FilterFlag(o), presents_only, cr1,
                                           Len(content) + slack, cr2, content)
         IN /\ op' = o
            /\ cls' = "-"
            /\ outcome' = IF res.kind = "raise" THEN "CMError" ELSE "returned"
            /\ err' = res.err
            /\ calls' = res.calls
            /\ result' = res.value
            /\ svcIds' = IF res.kind = "raise" THEN <<>> ELSE ids
            /\ svcSlack' = IF res.kind = "raise" THEN 0 ELSE slack
            /\ i' = 0
            /\ buf' = ""
            /\ yielded' = <<>>
            /\ keys' = <<>>
            /\ acc' = <<>>

EnumNext ==
    \/ CMEnumerator_iter
    \/ CMEnumerator_next
    \/ CMClass_iter
    \/ CMClass_next

Next == EnumNext \/ SizedNext \/ BulkNext \/ CMDeviceID_iter

Spec == Init /\ [][Next]_vars

\* The consumer of a generator keeps calling next() until it ends.
EnumSpec ==
    /\ Init
    /\ [][EnumNext]_vars
    /\ WF_vars(CMEnumerator_next)
    /\ WF_vars(CMClass_next)
\* ------------------------------------------------------------- properties
Ended == outcome \in {"returned", "CMError", "OverflowError"}

RECURSIVE SuccessItems(_)
SuccessItems(cs) ==
    IF cs = <<>> THEN <<>>
    ELSE IF Head(cs).cr = CR_SUCCESS
         THEN <<Head(cs).item>> \o SuccessItems(Tail(cs))
         ELSE SuccessItems(Tail(cs))

\* The calls made before the first one answered end-of-data.
RECURSIVE BeforeEndOfData(_)
BeforeEndOfData(cs) ==
    IF cs = <<>> \/ Head(cs).cr = CR_NO_SUCH_VALUE THEN <<>>
    ELSE <<Head(cs)>> \o BeforeEndOfData(Tail(cs))

\* C1, as claimed: whatever the service answers, what a sentinel enumeration
\* has yielded is exactly the items of the calls answered Success, in index
\* order, made before the first call answered end-of-data.
C1_YieldsExactlySuccesses ==
    op \in EnumOps => yielded = SuccessItems(BeforeEndOfData(calls))

\* C2, as claimed: a call of a sentinel enumeration answered neither Success
\* nor end-of-data ends the enumeration there with CMError carrying that
\* status, and nothing is yielded for that index or a later one.
C2_OtherStatusRaises ==
    op \in EnumOps =>
        \A k \in 1..Len(calls) :
            calls[k].cr \notin {CR_SUCCESS, CR_NO_SUCH_VALUE} =>
                /\ outcome = "CMError"
                /\ err = calls[k].cr
                /\ k = Len(calls)
                /\ Len(yielded) < k

\* The service failed the fetch of the key at position pos of a bulk listing
\* that calls fn: sizing answered BufferTooSmall, value call not Success.
BulkFetchFault(fn, pos) ==
    /\ i = pos
    /\ Len(calls) = 2
    /\ calls[1].fn = fn
    /\ calls[1].cr = CR_BUFFER_SMALL
    /\ calls[2].cr # CR_SUCCESS

\* C3, as claimed: when the fetch of K2 of the class keys (K1, K2, K3) fails
\* (BufferTooSmall, then a failure), CMClass.props raises no error.
C3_ClassBulkSkipsFailedKey ==
    (/\ op = "CMClass.props"
     /\ keys = <<1, 2, 3>>
     /\ BulkFetchFault("CM_Get_Class_PropertyW", 2))
    => outcome # "CMError"

\* C4: when the service fails the fetch of a key of a device bulk listing
\* (CMDevice.props, CMDevice.propdict: BufferTooSmall, then a failure), the
\* listing ends with CMError carrying the value call's status and the caller
\* gets no tuple or mapping.
C4_DeviceBulkFailureIsFatal ==
    (/\ op \in DeviceBulkOps
     /\ \E pos \in 1..Len(keys) : BulkFetchFault("CM_Get_DevNode_PropertyW", pos))
    => /\ outcome = "CMError"
       /\ err = calls[2].cr
       /\ result = <<>>

\* C4's case: K2 of (K1, K2, K3) failed after K1 had been fetched.
C4_Witness ==
    /\ op = "CMDevice.props"
    /\ keys = <<1, 2, 3>>
    /\ BulkFetchFault("CM_Get_DevNode_PropertyW", 2)
    /\ calls[2].cr = CR_FAILURE
    /\ outcome = "CMError"

StrictOps == {"CMClass.get_prop", "CMDevice.get_prop"}

\* C5: a strict single-property retrieval returns a DeviceProperty only when
\* sizing was answered BufferTooSmall and the value call Success; a sizing
\* answer other than BufferTooSmall (Success included) raises CMError with
\* that status after that one call, and a value answer other than Success
\* raises CMError with that status.
C5_StrictRetrieval ==
    (op \in StrictOps /\ Ended) =>
        /\ outcome = "returned" =>
              /\ Len(calls) = 2
              /\ calls[1].cr = CR_BUFFER_SMALL
              /\ calls[2].cr = CR_SUCCESS
              /\ Len(result) = 1
              /\ result[1].kind = "DeviceProperty"
        /\ calls[1].cr # CR_BUFFER_SMALL =>
              /\ outcome = "CMError"
              /\ err = calls[1].cr
              /\ Len(calls) = 1
        /\ (Len(calls) = 2 /\ calls[2].cr # CR_SUCCESS) =>
              /\ outcome = "CMError"
              /\ err = calls[2].cr

\* C5's case: sizing answered Success, which the strict retrieval raises.
C5_Witness ==
    /\ op = "CMClass.get_prop"
    /\ Len(calls) = 1
    /\ calls[1].cr = CR_SUCCESS
    /\ outcome = "CMError"
    /\ err = CR_SUCCESS

KeyListOps == {"CMClass.propkeys", "CMDevice.propkeys"}
PropOps == {"CMClass.get_prop", "CMClass.get_prop_or_none",
            "CMDevice.get_prop", "CMDevice.get_prop_or_none"}

\* C6: in a sized-buffer retrieval whose sizing call reports BufferTooSmall
\* with size S, exactly one more call is made, with a buffer of capacity S,
\* and a Success from it is accepted (S keys, or a property of S bytes, are
\* returned) whatever size the service then reports.
C6_SecondCallUsesReportedSize ==
    (op \in KeyListOps \cup PropOps /\ Ended /\ calls[1].cr = CR_BUFFER_SMALL) =>
        /\ Len(calls) = 2
        /\ calls[1].null
        /\ ~calls[2].null
        /\ calls[2].cap = calls[1].size
        /\ calls[2].cr = CR_SUCCESS =>
              /\ outcome = "returned"
              /\ IF op \in KeyListOps
                 THEN Len(result) = calls[1].size
                 ELSE /\ result[1].kind = "DeviceProperty"
                      /\ result[1].nbytes = calls[1].size

\* C6's case: the value call succeeds reporting less than S.
C6_Witness ==
    /\ op = "CMDevice.get_prop"
    /\ Len(calls) = 2
    /\ calls[1].cr = CR_BUFFER_SMALL
    /\ calls[2].cr = CR_SUCCESS
    /\ calls[2].size < calls[1].size
    /\ outcome = "returned"

\* C7, as claimed: a key listing whose sizing call answers Success with a
\* size of zero returns the empty tuple after that one call, without error.
C7_EmptyKeyList ==
    (/\ op \in KeyListOps
     /\ Ended
     /\ calls[1].cr = CR_SUCCESS
     /\ calls[1].size = 0)
    => /\ outcome = "returned"
       /\ result = <<>>
       /\ Len(calls) = 1

C9_SplitYieldsIdentifiers ==
    (op \in DeviceIdOps /\ outcome = "returned" /\ svcSlack = 0) => result = svcIds

\* C10: a sentinel enumeration consumed to its end does end, and when no
\* call was answered end-of-data it ends with OverflowError, after a call at
\* every index of the range.
C10_OverflowGuard ==
    /\ [](op \in EnumOps /\ outcome = "suspended" => <>Ended)
    /\ []((/\ op \in EnumOps
           /\ Ended
           /\ \A k \in 1..Len(calls) : calls[k].cr # CR_NO_SUCH_VALUE)
          => /\ outcome = "OverflowError"
             /\ Len(calls) = IndexLimit)

\* C10's case: the service answered every index without end-of-data.
C10_Witness ==
    /\ op = "CMClass.iter"
    /\ outcome = "OverflowError"
    /\ Len(yielded) = IndexLimit
    /\ \A k \in 1..Len(calls) : calls[k].cr = CR_SUCCESS
====
